---- MODULE Spec2Model ----
(***************************************************************************)
(* Repeated prisoner's dilemma of boyter/titfortat: the Game state machine *)
(* (game.go, in src/unnamed/part_000), the bots (bots.go, same file), the  *)
(* all-pairs tournament runGames and the fixed-baseline evaluation         *)
(* orgEvaluate / GenerationEvaluate (src/main.go).                         *)
(*                                                                         *)
(* The specifications share the variables:                                 *)
(*   Spec      the all-pairs tournament runGames, one step per loop        *)
(*             iteration / Play call, run to its end on a bots map that    *)
(*             holds up to MaxBots of the bots that do not call rand;      *)
(*   SpecMatch runGames on the bots map of the source (all seven bots),    *)
(*             from its first statement to the end of its first match;     *)
(*   SpecGame  a Game driven by arbitrary Play calls (Play as a function   *)
(*             of any state and any pair of ints), with a mirror Game      *)
(*             that receives the same calls with the roles swapped;        *)
(*   SpecEval  GenerationEvaluate over a population, calling orgEvaluate;  *)
(*   SpecReplay two runs of the match of runGames between the same two     *)
(*             bots that do not call rand, stepping independently;         *)
(*   FairSpecGame  SpecGame with weak fairness of the Play step;           *)
(*   SpecNet   the two network adapters (NeuralNetworkBot.Decision and the *)
(*             one inside orgEvaluate) called on any GameState;            *)
(*   SpecPlaySteps  a Game under arbitrary Play calls, each call executed  *)
(*             statement by statement;                                     *)
(*   SpecMatchSteps  SpecMatch with each iteration of the match loop as    *)
(*             its calls: GameOver(), State(), the two Decision, Play;     *)
(*   SpecRunners  a run of either match runner: runGames as in Spec or     *)
(*             GenerationEvaluate as in SpecEval.                          *)
(***************************************************************************)
EXTENDS Integers, FiniteSets, Sequences, TLC

\* const ( Cooperate = iota; Defect )
Cooperate == 0
Defect == 1

\* ---- bounds ----
\* runGames sets gameTurns := 100_000; the model repeats each pairing
\* gameTurns times with this smaller value.
gameTurns == 2
\* runGames registers seven bots; a run of Spec registers between one and
\* MaxBots of them.
MaxBots == 3
\* Number of Play calls of the free driver of SpecGame.
MaxPlays == 12
\* len(pop.Organisms) in GenerationEvaluate.
PopSize == 2

\* ---- game.go ----

CreateGame ==
    [AScore |-> 0, BScore |-> 0, Round |-> 0, APrevious |-> 0, BPrevious |-> 0]

State(g) ==
    [aPrevious |-> g.APrevious, bPrevious |-> g.BPrevious, round |-> g.Round]

\* GameOver with the horizon one round short.
GameOverOneShort(g) ==
    IF g.Round > 9 THEN TRUE ELSE FALSE

GameOver(g) ==
    IF g.Round > 10 THEN TRUE ELSE FALSE

\* Play with "if both defect then nothing", as the comment in Play has it.
PlayDefectNothing(g, d) ==
    LET g1 == IF d.aChoice = Cooperate /\ d.bChoice = Cooperate
              THEN [g EXCEPT !.AScore = @ + 1, !.BScore = @ + 1] ELSE g
        g3 == IF d.aChoice = Cooperate /\ d.bChoice = Defect
              THEN [g1 EXCEPT !.BScore = @ + 3, !.AScore = @ - 2] ELSE g1
        g4 == IF d.aChoice = Defect /\ d.bChoice = Cooperate
              THEN [g3 EXCEPT !.AScore = @ + 3, !.BScore = @ - 2] ELSE g3
    IN  [g4 EXCEPT !.APrevious = d.aChoice, !.BPrevious = d.bChoice,
                   !.Round = @ + 1]

\* Play whose first if tests that the choices agree and are not Defect,
\* so that the pair (-1, -1) is rewarded like mutual cooperation.
PlayRewardsAgreement(g, d) ==
    LET g1 == IF d.aChoice = d.bChoice /\ d.aChoice # Defect
              THEN [g EXCEPT !.AScore = @ + 1, !.BScore = @ + 1] ELSE g
        g2 == IF d.aChoice = Defect /\ d.bChoice = Defect
              THEN [g1 EXCEPT !.AScore = @ - 1, !.BScore = @ - 1] ELSE g1
        g3 == IF d.aChoice = Cooperate /\ d.bChoice = Defect
              THEN [g2 EXCEPT !.BScore = @ + 3, !.AScore = @ - 2] ELSE g2
        g4 == IF d.aChoice = Defect /\ d.bChoice = Cooperate
              THEN [g3 EXCEPT !.AScore = @ + 3, !.BScore = @ - 2] ELSE g3
    IN  [g4 EXCEPT !.APrevious = d.aChoice, !.BPrevious = d.bChoice,
                   !.Round = @ + 1]

\* Play whose last if gives both of its updates to A's side of the table:
\* B loses 2 when A defects on a cooperating B, but A gains only 2.
PlayLopsided(g, d) ==
    LET g1 == IF d.aChoice = Cooperate /\ d.bChoice = Cooperate
              THEN [g EXCEPT !.AScore = @ + 1, !.BScore = @ + 1] ELSE g
        g2 == IF d.aChoice = Defect /\ d.bChoice = Defect
              THEN [g1 EXCEPT !.AScore = @ - 1, !.BScore = @ - 1] ELSE g1
        g3 == IF d.aChoice = Cooperate /\ d.bChoice = Defect
              THEN [g2 EXCEPT !.BScore = @ + 3, !.AScore = @ - 2] ELSE g2
        g4 == IF d.aChoice = Defect /\ d.bChoice = Cooperate
              THEN [g3 EXCEPT !.AScore = @ + 2, !.BScore = @ - 2] ELSE g3
    IN  [g4 EXCEPT !.APrevious = d.aChoice, !.BPrevious = d.bChoice,
                   !.Round = @ + 1]

\* Play that counts a round only when a row of the payoff table applied.
PlayCountsScoredRounds(g, d) ==
    LET g1 == IF d.aChoice = Cooperate /\ d.bChoice = Cooperate
              THEN [g EXCEPT !.AScore = @ + 1, !.BScore = @ + 1,
                             !.Round = @ + 1] ELSE g
        g2 == IF d.aChoice = Defect /\ d.bChoice = Defect
              THEN [g1 EXCEPT !.AScore = @ - 1, !.BScore = @ - 1,
                              !.Round = @ + 1] ELSE g1
        g3 == IF d.aChoice = Cooperate /\ d.bChoice = Defect
              THEN [g2 EXCEPT !.BScore = @ + 3, !.AScore = @ - 2,
                              !.Round = @ + 1] ELSE g2
        g4 == IF d.aChoice = Defect /\ d.bChoice = Cooperate
              THEN [g3 EXCEPT !.AScore = @ + 3, !.BScore = @ - 2,
                              !.Round = @ + 1] ELSE g3
    IN  [g4 EXCEPT !.APrevious = d.aChoice, !.BPrevious = d.bChoice]

\* Play whose ifs on a Cooperate of one side test only that the other side
\* did not make the opposite valid choice, so that (Cooperate, 2) scores as
\* mutual cooperation and (-1, Defect) as mutual defection.
PlayLenient(g, d) ==
    LET g1 == IF d.aChoice = Cooperate /\ d.bChoice # Defect
              THEN [g EXCEPT !.AScore = @ + 1, !.BScore = @ + 1] ELSE g
        g2 == IF d.aChoice # Cooperate /\ d.bChoice = Defect
              THEN [g1 EXCEPT !.AScore = @ - 1, !.BScore = @ - 1] ELSE g1
        g3 == IF d.aChoice = Cooperate /\ d.bChoice = Defect
              THEN [g2 EXCEPT !.BScore = @ + 3, !.AScore = @ - 2] ELSE g2
        g4 == IF d.aChoice = Defect /\ d.bChoice = Cooperate
              THEN [g3 EXCEPT !.AScore = @ + 3, !.BScore = @ - 2] ELSE g3
    IN  [g4 EXCEPT !.APrevious = d.aChoice, !.BPrevious = d.bChoice,
                   !.Round = @ + 1]

\* Play whose third if takes 3 from A where Play takes 2.
PlaySuckerLosesThree(g, d) ==
    LET g1 == IF d.aChoice = Cooperate /\ d.bChoice = Cooperate
              THEN [g EXCEPT !.AScore = @ + 1, !.BScore = @ + 1] ELSE g
        g2 == IF d.aChoice = Defect /\ d.bChoice = Defect
              THEN [g1 EXCEPT !.AScore = @ - 1, !.BScore = @ - 1] ELSE g1
        g3 == IF d.aChoice = Cooperate /\ d.bChoice = Defect
              THEN [g2 EXCEPT !.BScore = @ + 3, !.AScore = @ - 3] ELSE g2
        g4 == IF d.aChoice = Defect /\ d.bChoice = Cooperate
              THEN [g3 EXCEPT !.AScore = @ + 3, !.BScore = @ - 2] ELSE g3
    IN  [g4 EXCEPT !.APrevious = d.aChoice, !.BPrevious = d.bChoice,
                   !.Round = @ + 1]

\* The four ifs of Play run one after the other on the same decision d; then
\* the previous choices are stored and the round is incremented.
Play(g, d) ==
    LET g1 == IF d.aChoice = Cooperate /\ d.bChoice = Cooperate
              THEN [g EXCEPT !.AScore = @ + 1, !.BScore = @ + 1] ELSE g
        g2 == IF d.aChoice = Defect /\ d.bChoice = Defect
              THEN [g1 EXCEPT !.AScore = @ - 1, !.BScore = @ - 1] ELSE g1
        g3 == IF d.aChoice = Cooperate /\ d.bChoice = Defect
              THEN [g2 EXCEPT !.BScore = @ + 3, !.AScore = @ - 2] ELSE g2
        g4 == IF d.aChoice = Defect /\ d.bChoice = Cooperate
              THEN [g3 EXCEPT !.AScore = @ + 3, !.BScore = @ - 2] ELSE g3
    IN  [g4 EXCEPT !.APrevious = d.aChoice, !.BPrevious = d.bChoice,
                   !.Round = @ + 1]

gameDecision(a, b) == [aChoice |-> a, bChoice |-> b]

\* ---- bots.go ----
\* Decision of each bot as the set of values the call can return: a bot that
\* calls rand.Intn can return either choice.

RandomBotDecision(state) == {0, 1}

\* DefectBot returning the other constant.
DefectBotCooperates(state) == {Cooperate}

DefectBotDecision(state) == {Defect}

CooperateBotDecision(state) == {Cooperate}

\* TitForTatBot that cooperates only after a Cooperate.
TitForTatBotNeedsCooperate(state) ==
    IF state.aPrevious = Cooperate THEN {Cooperate} ELSE {Defect}

\* TitForTatBot that may or may not answer a Defect (a hidden coin).
TitForTatBotMayForgive(state) ==
    IF state.aPrevious = Defect THEN {Defect, Cooperate} ELSE {Cooperate}

\* TitForTatBot reading the other field of the state.
TitForTatBotReadsB(state) ==
    IF state.bPrevious = Defect THEN {Defect} ELSE {Cooperate}

\* TitForTatBot without its if.
TitForTatBotNeverDefects(state) == {Cooperate}

TitForTatBotDecision(state) ==
    IF state.aPrevious = Defect THEN {Defect} ELSE {Cooperate}

\* TitForTatBotReverse that may or may not defect after a Cooperate (a
\* hidden coin).
TitForTatBotReverseMayDefect(state) ==
    IF state.aPrevious = Cooperate THEN {Defect, Cooperate} ELSE {Cooperate}

\* TitForTatBotReverse reading the other field of the state.
TitForTatBotReverseReadsB(state) ==
    IF state.bPrevious = Cooperate THEN {Defect} ELSE {Cooperate}

TitForTatBotReverseDecision(state) ==
    IF state.aPrevious = Cooperate THEN {Defect} ELSE {Cooperate}

RandomDefectBotDecision(state) == {Defect, Cooperate}

OftenRandomDefectBotDecision(state) == {Defect, Cooperate}

\* The keys of the bots map of runGames.
AllBots ==
    {"RandomBot", "TitForTatBot", "DefectBot", "CooperateBot",
     "RandomDefectBot", "TitForTatBotReverse", "OftenRandomDefectBot"}

\* The bots whose Decision does not call rand.
FixedBots == {"TitForTatBot", "DefectBot", "CooperateBot", "TitForTatBotReverse"}

\* Interface dispatch b.Decision(state) on the bot registered under name b.
Decision(b, state) ==
    CASE b = "RandomBot" -> RandomBotDecision(state)
      [] b = "TitForTatBot" -> TitForTatBotDecision(state)
      [] b = "DefectBot" -> DefectBotDecision(state)
      [] b = "CooperateBot" -> CooperateBotDecision(state)
      [] b = "RandomDefectBot" -> RandomDefectBotDecision(state)
      [] b = "TitForTatBotReverse" -> TitForTatBotReverseDecision(state)
      [] b = "OftenRandomDefectBot" -> OftenRandomDefectBotDecision(state)

\* ---- state ----
VARIABLES
    pc,          \* position of the running function
    game,        \* the Game of the match in progress
    mirror,      \* SpecGame: a second Game, played with the roles swapped
    bots,        \* runGames: keys of the bots map
    k1, b2, i,   \* runGames: loop variables (b2 by its key)
    done1, done2,\* runGames: keys the two range loops have already visited
    k1Wins, k1Loses, k1Draws,
    winRates, lossRates, drawRates, scoreRates,
    orgIdx,      \* GenerationEvaluate: index of org in pop.Organisms
    organisms,   \* Fitness, Error, IsWinner of each organism
    epoch,       \* the fields of epoch GenerationEvaluate writes
    netErr,      \* orgEvaluate: the error LoadSensors / ForwardSteps
                 \* returned in the current iteration (assigned to _)
    adapter,     \* SpecNet: what the last call of a network adapter loaded
                 \* into the network, read from it and returned
    playArg,     \* SpecPlaySteps: the parameter decision of the Play call
                 \* that is executing
    calls,       \* SpecPlaySteps: number of Play calls made on game
    snapshot,    \* SpecMatchSteps: the local state := game.State()
    played       \* SpecGame: how many of the Play calls made on game
                 \* carried (Cooperate, Defect) and how many (Defect,
                 \* Cooperate)

vars == <<pc, game, mirror, bots, k1, b2, i, done1, done2,
          k1Wins, k1Loses, k1Draws, winRates, lossRates, drawRates,
          scoreRates, orgIdx, organisms, epoch, netErr, adapter,
          playArg, calls, snapshot, played>>

tourVars == <<bots, k1, b2, i, done1, done2, k1Wins, k1Loses, k1Draws,
              winRates, lossRates, drawRates, scoreRates>>

evalVars == <<orgIdx, organisms, epoch, netErr, adapter>>

stepVars == <<playArg, calls, snapshot, played>>

NoBot == "none"

\* No Play call is executing.
NoCall == [aChoice |-> 0, bChoice |-> 0]

\* The local state before its declaration in the loop body.
NoSnap == [aPrevious |-> 0, bPrevious |-> 0, round |-> 0]

\* No adapter has been called yet.
NoAdapter == [by |-> "none", sensors |-> <<>>, output |-> 0, decision |-> 0]

\* A map[string]T with no key yet.
EmptyMap == [k \in {} |-> 0]

\* m[k] = v on a Go map: adds the key when it is missing.
MapSet(m, k, v) ==
    [x \in (DOMAIN m) \cup {k} |-> IF x = k THEN v ELSE m[x]]

\* m[k] on a Go map of ints: the zero value when the key is missing.
MapGet(m, k) == IF k \in DOMAIN m THEN m[k] ELSE 0

\* (float64(n) / float64(gameTurns*len(bots))) * 100, kept as the exact
\* fraction num/den (the float64 rounding of the quotient is not modelled).
Rate(n, nbots) == [num |-> n * 100, den |-> gameTurns * nbots]

InitOrganisms ==
    [o \in 1..PopSize |-> [Fitness |-> 0, Error |-> 0, IsWinner |-> FALSE]]

InitEpoch == [Solved |-> FALSE, Best |-> 0]

TourIdle ==
    /\ bots = {}
    /\ k1 = NoBot /\ b2 = NoBot /\ i = 0
    /\ done1 = {} /\ done2 = {}
    /\ k1Wins = 0 /\ k1Loses = 0 /\ k1Draws = 0
    /\ winRates = EmptyMap /\ lossRates = EmptyMap /\ drawRates = EmptyMap
    /\ scoreRates = EmptyMap

EvalIdle ==
    /\ orgIdx = 0
    /\ organisms = InitOrganisms
    /\ epoch = InitEpoch
    /\ netErr = "nil"
    /\ adapter = NoAdapter

StepIdle ==
    /\ playArg = NoCall
    /\ calls = 0
    /\ snapshot = NoSnap
    /\ played = [cd |-> 0, dc |-> 0]

\* ---- runGames (src/main.go) ----

Init ==
    /\ pc = "rangeK1"
    /\ game = CreateGame
    /\ mirror = CreateGame
    /\ bots \in {S \in SUBSET FixedBots : Cardinality(S) \in 1..MaxBots}
    /\ k1 = NoBot /\ b2 = NoBot /\ i = 0
    /\ done1 = {} /\ done2 = {}
    /\ k1Wins = 0 /\ k1Loses = 0 /\ k1Draws = 0
    /\ winRates = EmptyMap /\ lossRates = EmptyMap /\ drawRates = EmptyMap
    /\ scoreRates = EmptyMap
    /\ EvalIdle
    /\ StepIdle

\* for k1, b1 := range bots { k1Wins := 0; k1Loses := 0; k1Draws := 0 ...
\* A range over a Go map visits every key once, in an unspecified order.
RangeK1 ==
    /\ pc = "rangeK1"
    /\ \E k \in bots \ done1 :
         /\ k1' = k
         /\ done1' = done1 \cup {k}
    /\ k1Wins' = 0 /\ k1Loses' = 0 /\ k1Draws' = 0
    /\ done2' = {}
    /\ pc' = "rangeB2"
    /\ UNCHANGED <<game, mirror, bots, b2, i, winRates, lossRates, drawRates,
                   scoreRates, evalVars, stepVars>>

\* for _, b2 := range bots { for i := 0; ...
RangeB2 ==
    /\ pc = "rangeB2"
    /\ \E k \in bots \ done2 :
         /\ b2' = k
         /\ done2' = done2 \cup {k}
    /\ i' = 0
    /\ pc' = "forI"
    /\ UNCHANGED <<game, mirror, bots, k1, done1, k1Wins, k1Loses, k1Draws,
                   winRates, lossRates, drawRates, scoreRates, evalVars, stepVars>>

\* The inner range is exhausted: the three rates of k1 are stored.
StoreRates ==
    /\ pc = "rangeB2"
    /\ done2 = bots
    /\ winRates' = MapSet(winRates, k1, Rate(k1Wins, Cardinality(bots)))
    /\ lossRates' = MapSet(lossRates, k1, Rate(k1Loses, Cardinality(bots)))
    /\ drawRates' = MapSet(drawRates, k1, Rate(k1Draws, Cardinality(bots)))
    /\ pc' = "rangeK1"
    /\ UNCHANGED <<game, mirror, bots, k1, b2, i, done1, done2,
                   k1Wins, k1Loses, k1Draws, scoreRates, evalVars, stepVars>>

\* The for loop with the test i <= gameTurns.
NewGameOneMore ==
    /\ pc = "forI"
    /\ i <= gameTurns
    /\ game' = CreateGame
    /\ pc' = "seed"
    /\ UNCHANGED <<mirror, tourVars, evalVars, stepVars>>

\* The for loop starting a match on the Game of the match before, with only
\* its round counter set back.
NewGameKeepsScores ==
    /\ pc = "forI"
    /\ i < gameTurns
    /\ game' = [game EXCEPT !.Round = 0]
    /\ pc' = "seed"
    /\ UNCHANGED <<mirror, tourVars, evalVars, stepVars>>

\* i < gameTurns: game := CreateGame()
NewGame ==
    /\ pc = "forI"
    /\ i < gameTurns
    /\ game' = CreateGame
    /\ pc' = "seed"
    /\ UNCHANGED <<mirror, tourVars, evalVars, stepVars>>

\* i >= gameTurns: the for loop over i ends, back to the range over b2.
EndForI ==
    /\ pc = "forI"
    /\ ~(i < gameTurns)
    /\ pc' = "rangeB2"
    /\ UNCHANGED <<game, mirror, tourVars, evalVars, stepVars>>

\* The seeding Play with Cooperate for both sides.
SeedPlayCooperates ==
    /\ pc = "seed"
    /\ game' = Play(game, gameDecision(Cooperate, Cooperate))
    /\ pc' = "match"
    /\ UNCHANGED <<mirror, tourVars, evalVars, stepVars>>

\* game.Play(gameDecision{aChoice: -1, bChoice: -1})
SeedPlay ==
    /\ pc = "seed"
    /\ game' = Play(game, gameDecision(-1, -1))
    /\ pc' = "match"
    /\ UNCHANGED <<mirror, tourVars, evalVars, stepVars>>

\* The match loop with B asked after A on a state that already shows A's
\* choice of the round.
MatchPlayBSeesA ==
    /\ pc = "match"
    /\ ~GameOver(game)
    /\ LET state == State(game)
       IN  \E a \in Decision(k1, state) :
             \E b \in Decision(b2, [state EXCEPT !.aPrevious = a]) :
               game' = Play(game, gameDecision(a, b))
    /\ UNCHANGED <<pc, mirror, tourVars, evalVars, stepVars>>

\* The match loop with scoreRates[k1] += game.AScore inside its body.
MatchPlayAddsScore ==
    /\ pc = "match"
    /\ ~GameOver(game)
    /\ LET state == State(game)
       IN  \E a \in Decision(k1, state), b \in Decision(b2, state) :
             game' = Play(game, gameDecision(a, b))
    /\ scoreRates' = MapSet(scoreRates, k1, MapGet(scoreRates, k1) + game'.AScore)
    /\ UNCHANGED <<pc, mirror, bots, k1, b2, i, done1, done2, k1Wins, k1Loses,
                   k1Draws, winRates, lossRates, drawRates, evalVars, stepVars>>

\* for !game.GameOver() { state := game.State(); game.Play(...) }
MatchPlay ==
    /\ pc = "match"
    /\ ~GameOver(game)
    /\ LET state == State(game)
       IN  \E a \in Decision(k1, state), b \in Decision(b2, state) :
             game' = Play(game, gameDecision(a, b))
    /\ UNCHANGED <<pc, mirror, tourVars, evalVars, stepVars>>

\* The three ifs after the match loop, as the values the counters take.
TallyDraws(g, n) == IF g.AScore = g.BScore THEN n + 1 ELSE n

\* The win test with >= for >.
TallyWinsOrDraws(g, n) == IF g.AScore >= g.BScore THEN n + 1 ELSE n

TallyWins(g, n) == IF g.AScore > g.BScore THEN n + 1 ELSE n

\* The loss test with <= for <.
TallyLosesOrDraws(g, n) == IF g.AScore <= g.BScore THEN n + 1 ELSE n

TallyLoses(g, n) == IF g.AScore < g.BScore THEN n + 1 ELSE n

\* The tally with scoreRates[k1] = game.AScore for +=.
TallyOverwritesScore ==
    /\ pc = "match"
    /\ GameOver(game)
    /\ k1Draws' = TallyDraws(game, k1Draws)
    /\ k1Wins' = TallyWins(game, k1Wins)
    /\ k1Loses' = TallyLoses(game, k1Loses)
    /\ scoreRates' = MapSet(scoreRates, k1, game.AScore)
    /\ i' = i + 1
    /\ pc' = "forI"
    /\ UNCHANGED <<game, mirror, bots, k1, b2, done1, done2,
                   winRates, lossRates, drawRates, evalVars, stepVars>>

\* The tally with scoreRates[k2] += game.BScore added for the bot in role B.
TallyCreditsB ==
    /\ pc = "match"
    /\ GameOver(game)
    /\ k1Draws' = TallyDraws(game, k1Draws)
    /\ k1Wins' = TallyWins(game, k1Wins)
    /\ k1Loses' = TallyLoses(game, k1Loses)
    /\ LET s1 == MapSet(scoreRates, k1, MapGet(scoreRates, k1) + game.AScore)
       IN  scoreRates' = MapSet(s1, b2, MapGet(s1, b2) + game.BScore)
    /\ i' = i + 1
    /\ pc' = "forI"
    /\ UNCHANGED <<game, mirror, bots, k1, b2, done1, done2,
                   winRates, lossRates, drawRates, evalVars, stepVars>>

\* The match is over: count it for k1, add AScore to scoreRates[k1], i++.
Tally ==
    /\ pc = "match"
    /\ GameOver(game)
    /\ k1Draws' = TallyDraws(game, k1Draws)
    /\ k1Wins' = TallyWins(game, k1Wins)
    /\ k1Loses' = TallyLoses(game, k1Loses)
    /\ scoreRates' = MapSet(scoreRates, k1, MapGet(scoreRates, k1) + game.AScore)
    /\ i' = i + 1
    /\ pc' = "forI"
    /\ UNCHANGED <<game, mirror, bots, k1, b2, done1, done2,
                   winRates, lossRates, drawRates, evalVars, stepVars>>

\* The outer range is exhausted: the rates and scores are printed.
Report ==
    /\ pc = "rangeK1"
    /\ done1 = bots
    /\ pc' = "done"
    /\ UNCHANGED <<game, mirror, tourVars, evalVars, stepVars>>

Next ==
    \/ RangeK1
    \/ RangeB2
    \/ StoreRates
    \/ NewGame
    \/ EndForI
    \/ SeedPlay
    \/ MatchPlay
    \/ Tally
    \/ Report

Spec == Init /\ [][Next]_vars

\* ---- runGames on the seven bots, up to the end of its first match ----

InitMatch ==
    /\ pc = "rangeK1"
    /\ game = CreateGame
    /\ mirror = CreateGame
    /\ bots = AllBots
    /\ k1 = NoBot /\ b2 = NoBot /\ i = 0
    /\ done1 = {} /\ done2 = {}
    /\ k1Wins = 0 /\ k1Loses = 0 /\ k1Draws = 0
    /\ winRates = EmptyMap /\ lossRates = EmptyMap /\ drawRates = EmptyMap
    /\ scoreRates = EmptyMap
    /\ EvalIdle
    /\ StepIdle

\* The first key of each range and the first iteration of the for loop.
NextMatch ==
    \/ (done1 = {} /\ RangeK1)
    \/ (done2 = {} /\ RangeB2)
    \/ (i = 0 /\ NewGame)
    \/ SeedPlay
    \/ MatchPlay
    \/ Tally

SpecMatch == InitMatch /\ [][NextMatch]_vars

\* ---- a Game under arbitrary Play calls ----

\* The ints a caller can pass as a choice: the two choices, the seeding value
\* and one more value outside the domain.
Choices == {-1, Cooperate, Defect, 2}

InitGame ==
    /\ pc = "free"
    /\ game = CreateGame
    /\ mirror = CreateGame
    /\ TourIdle
    /\ EvalIdle
    /\ StepIdle

\* The count of calls after one more call with the decision d.
Played(n, d) ==
    [cd |-> IF d.aChoice = Cooperate /\ d.bChoice = Defect
            THEN n.cd + 1 ELSE n.cd,
     dc |-> IF d.aChoice = Defect /\ d.bChoice = Cooperate
            THEN n.dc + 1 ELSE n.dc]

FreePlay ==
    /\ pc = "free"
    /\ game.Round < MaxPlays
    /\ \E a \in Choices, b \in Choices :
         /\ game' = Play(game, gameDecision(a, b))
         /\ mirror' = Play(mirror, gameDecision(b, a))
         /\ played' = Played(played, gameDecision(a, b))
    /\ UNCHANGED <<pc, tourVars, evalVars, playArg, calls, snapshot>>

NextGame == FreePlay

SpecGame == InitGame /\ [][NextGame]_vars

\* The caller of Play is a sequential loop without blocking calls: while a
\* Play call is due it is eventually made.
FairSpecGame == InitGame /\ [][NextGame]_vars /\ WF_vars(FreePlay)

\* ---- GenerationEvaluate and orgEvaluate (src/main.go) ----

\* organism.Phenotype.Outputs[0].Activation after net.ForwardSteps, in tenths:
\* the network belongs to goNEAT, so its output is an input of the model.
Activations == {0, 5, 6, 10}

\* The decision with the threshold included: >= 0.5 gives Defect.
NetDecisionAtLeast(act) == IF act >= 5 THEN Defect ELSE Cooperate

\* decision := Cooperate; if Activation > 0.5 { decision = Defect }
NetDecision(act) == IF act > 5 THEN Defect ELSE Cooperate

\* The inline adapter of orgEvaluate on the state read from the Game, with
\* act the activation the network shows after ForwardSteps: the slice given
\* to LoadSensors (float64 of an int of this size is the same number) and
\* the decision passed to Play.
OrgAdapter(state, act) ==
    [sensors |-> <<state.aPrevious, state.bPrevious>>,
     output |-> act,
     decision |-> NetDecision(act)]

\* NeuralNetworkBot.Decision(state), with act the value of outputs[0] after
\* Activate: the slice given to LoadSensors and the value returned.
NeuralNetworkBotDecision(state, act) ==
    [sensors |-> <<state.aPrevious, state.bPrevious>>,
     output |-> act,
     decision |-> IF act > 5 THEN Defect ELSE Cooperate]

\* What net.LoadSensors and net.ForwardSteps (goNEAT) can return as error.
NetErrors == {"nil", "error"}

\* orgEvaluate ending with return true, nil.
OrgResultSolved == [res |-> TRUE, err |-> "nil"]

\* What orgEvaluate returns: return false, nil
OrgResult == [res |-> FALSE, err |-> "nil"]

InitEval ==
    /\ pc = "genLoop"
    /\ game = CreateGame
    /\ mirror = CreateGame
    /\ TourIdle
    /\ orgIdx = 1
    /\ organisms = InitOrganisms
    /\ epoch = InitEpoch
    /\ netErr = "nil"
    /\ adapter = NoAdapter
    /\ StepIdle

\* orgEvaluate with the seeding Play of runGames after CreateGame.
OrgStartSeeds ==
    /\ pc = "genLoop"
    /\ orgIdx <= PopSize
    /\ game' = Play(CreateGame, gameDecision(-1, -1))
    /\ pc' = "orgLoop"
    /\ UNCHANGED <<mirror, tourVars, evalVars, stepVars>>

\* for _, org := range pop.Organisms { ex.orgEvaluate(org): game := CreateGame()
OrgStart ==
    /\ pc = "genLoop"
    /\ orgIdx <= PopSize
    /\ game' = CreateGame
    /\ pc' = "orgLoop"
    /\ UNCHANGED <<mirror, tourVars, evalVars, stepVars>>

\* One iteration of for !game.GameOver() in orgEvaluate: the organism plays
\* A, RandomBot plays B, both on the state read before the Play. The errors
\* of LoadSensors and ForwardSteps are assigned to _ and the activation is
\* read whatever they were.
OrgPlay ==
    /\ pc = "orgLoop"
    /\ ~GameOver(game)
    /\ netErr' \in NetErrors
    /\ LET state == State(game)
       IN  \E act \in Activations, b \in RandomBotDecision(state) :
             game' = Play(game, gameDecision(OrgAdapter(state, act).decision, b))
    /\ UNCHANGED <<pc, mirror, tourVars, orgIdx, organisms, epoch, adapter,
                   stepVars>>

\* Fitness as the margin over the opponent.
OrgFitnessMargin(g) == g.AScore - g.BScore

\* organism.Fitness = float64(game.AScore): the conversion is exact on the
\* scores of a Game, so the fitness is kept as the integer.
OrgFitness(g) == g.AScore

\* The loop of orgEvaluate has ended: Fitness, Error and IsWinner are set
\* (IsWinner from rand.Intn(10)%2 == 0), orgEvaluate returns, and
\* GenerationEvaluate tests the returned pair before the next organism.
OrgFinish ==
    /\ pc = "orgLoop"
    /\ GameOver(game)
    /\ \E r \in 0..9 :
         organisms' = [organisms EXCEPT ![orgIdx] =
                          [Fitness |-> OrgFitness(game), Error |-> 0,
                           IsWinner |-> (r % 2 = 0)]]
    /\ IF OrgResult.err # "nil"
       THEN /\ pc' = "genError"
            /\ UNCHANGED <<epoch, orgIdx>>
       ELSE /\ epoch' =
                 IF OrgResult.res
                    /\ (epoch.Best = 0
                        \/ OrgFitness(game) > organisms[epoch.Best].Fitness)
                 THEN [Solved |-> TRUE, Best |-> orgIdx]
                 ELSE epoch
            /\ orgIdx' = orgIdx + 1
            /\ pc' = "genLoop"
    /\ netErr' = "nil"
    /\ UNCHANGED <<game, mirror, tourVars, adapter, stepVars>>

\* The range over pop.Organisms is exhausted: return nil.
GenReturn ==
    /\ pc = "genLoop"
    /\ orgIdx > PopSize
    /\ pc' = "genDone"
    /\ UNCHANGED <<game, mirror, tourVars, evalVars, stepVars>>

NextEval ==
    \/ OrgStart
    \/ OrgPlay
    \/ OrgFinish
    \/ GenReturn

SpecEval == InitEval /\ [][NextEval]_vars

\* ---- two runs of one match of runGames ----

\* The Games the next statement of the match of runGames can produce from g,
\* with bot ka in role A and kb in role B: the seeding Play on the Game that
\* CreateGame returned, then one iteration of for !game.GameOver().
MatchStep(g, ka, kb) ==
    IF g.Round = 0
    THEN {Play(g, gameDecision(-1, -1))}
    ELSE {Play(g, gameDecision(a, b)) :
            a \in Decision(ka, State(g)), b \in Decision(kb, State(g))}

InitReplay ==
    /\ pc = "replay"
    /\ game = CreateGame
    /\ mirror = CreateGame
    /\ bots = AllBots
    /\ k1 \in FixedBots /\ b2 \in FixedBots
    /\ i = 0
    /\ done1 = {} /\ done2 = {}
    /\ k1Wins = 0 /\ k1Loses = 0 /\ k1Draws = 0
    /\ winRates = EmptyMap /\ lossRates = EmptyMap /\ drawRates = EmptyMap
    /\ scoreRates = EmptyMap
    /\ EvalIdle
    /\ StepIdle

\* A step of the first run of the match.
ReplayFirst ==
    /\ pc = "replay"
    /\ ~GameOver(game)
    /\ game' \in MatchStep(game, k1, b2)
    /\ UNCHANGED <<pc, mirror, tourVars, evalVars, stepVars>>

\* A step of the second run of the same match.
ReplaySecond ==
    /\ pc = "replay"
    /\ ~GameOver(mirror)
    /\ mirror' \in MatchStep(mirror, k1, b2)
    /\ UNCHANGED <<pc, game, tourVars, evalVars, stepVars>>

NextReplay ==
    \/ ReplayFirst
    \/ ReplaySecond

SpecReplay == InitReplay /\ [][NextReplay]_vars

\* ---- the two network adapters as functions of the GameState ----

\* The Games whose State() an adapter can be given: any pair of ints a caller
\* of Play can have passed as the previous choices, at any round.
InitNet ==
    /\ pc = "net"
    /\ game \in [AScore : {0}, BScore : {0}, Round : 0..MaxPlays,
                 APrevious : Choices, BPrevious : Choices]
    /\ mirror = CreateGame
    /\ TourIdle
    /\ EvalIdle
    /\ StepIdle

\* A call NeuralNetworkBot{net}.Decision(game.State()).
CallNeuralNetworkBot ==
    /\ pc = "net"
    /\ \E act \in Activations :
         adapter' = [by |-> "NeuralNetworkBot"]
                       @@ NeuralNetworkBotDecision(State(game), act)
    /\ UNCHANGED <<pc, game, mirror, tourVars, orgIdx, organisms, epoch, netErr,
                   stepVars>>

\* The adapter of one iteration of the loop of orgEvaluate on game.State().
CallOrgAdapter ==
    /\ pc = "net"
    /\ \E act \in Activations :
         adapter' = [by |-> "orgEvaluate"] @@ OrgAdapter(State(game), act)
    /\ UNCHANGED <<pc, game, mirror, tourVars, orgIdx, organisms, epoch, netErr,
                   stepVars>>

NextNet ==
    \/ CallNeuralNetworkBot
    \/ CallOrgAdapter

SpecNet == InitNet /\ [][NextNet]_vars

\* ---- Play statement by statement ----

\* The four ifs of Play on the scores.
PlayScores(g, d) ==
    LET g1 == IF d.aChoice = Cooperate /\ d.bChoice = Cooperate
              THEN [g EXCEPT !.AScore = @ + 1, !.BScore = @ + 1] ELSE g
        g2 == IF d.aChoice = Defect /\ d.bChoice = Defect
              THEN [g1 EXCEPT !.AScore = @ - 1, !.BScore = @ - 1] ELSE g1
        g3 == IF d.aChoice = Cooperate /\ d.bChoice = Defect
              THEN [g2 EXCEPT !.BScore = @ + 3, !.AScore = @ - 2] ELSE g2
        g4 == IF d.aChoice = Defect /\ d.bChoice = Cooperate
              THEN [g3 EXCEPT !.AScore = @ + 3, !.BScore = @ - 2] ELSE g3
    IN  g4

\* The previous choices stored by the first Play only.
PlayPreviousKeepsFirst(g, d) ==
    IF g.Round = 0
    THEN [g EXCEPT !.APrevious = d.aChoice, !.BPrevious = d.bChoice]
    ELSE g

\* g.APrevious = d.aChoice; g.BPrevious = d.bChoice
PlayPrevious(g, d) ==
    [g EXCEPT !.APrevious = d.aChoice, !.BPrevious = d.bChoice]

\* g.Round++
PlayRound(g) == [g EXCEPT !.Round = @ + 1]

\* The caller is between two calls at "loop", where it evaluates GameOver()
\* and State(); the Game belongs to that one caller (a local of runGames or
\* of orgEvaluate, no goroutine is started on it). mirror receives every
\* call as one application of Play.
InitPlaySteps ==
    /\ pc = "loop"
    /\ game = CreateGame
    /\ mirror = CreateGame
    /\ TourIdle
    /\ EvalIdle
    /\ StepIdle

\* The caller calls game.Play(d).
PlayCall ==
    /\ pc = "loop"
    /\ calls < MaxPlays
    /\ \E a \in Choices, b \in Choices :
         /\ playArg' = gameDecision(a, b)
         /\ mirror' = Play(mirror, gameDecision(a, b))
    /\ calls' = calls + 1
    /\ pc' = "playScores"
    /\ UNCHANGED <<game, tourVars, evalVars, snapshot, played>>

PlayScoresStep ==
    /\ pc = "playScores"
    /\ game' = PlayScores(game, playArg)
    /\ pc' = "playPrevious"
    /\ UNCHANGED <<mirror, tourVars, evalVars, stepVars>>

PlayPreviousStep ==
    /\ pc = "playPrevious"
    /\ game' = PlayPrevious(game, playArg)
    /\ pc' = "playRound"
    /\ UNCHANGED <<mirror, tourVars, evalVars, stepVars>>

\* Play returning without g.Round++.
PlayRoundStepSkips ==
    /\ pc = "playRound"
    /\ playArg' = NoCall
    /\ pc' = "loop"
    /\ UNCHANGED <<game, mirror, tourVars, evalVars, calls, snapshot, played>>

\* g.Round++ and the return to the caller.
PlayRoundStep ==
    /\ pc = "playRound"
    /\ game' = PlayRound(game)
    /\ playArg' = NoCall
    /\ pc' = "loop"
    /\ UNCHANGED <<mirror, tourVars, evalVars, calls, snapshot, played>>

NextPlaySteps ==
    \/ PlayCall
    \/ PlayScoresStep
    \/ PlayPreviousStep
    \/ PlayRoundStep

SpecPlaySteps == InitPlaySteps /\ [][NextPlaySteps]_vars

\* ---- the match loop of runGames call by call ----

\* for !game.GameOver(): the call returned false, the body is entered.
MatchTest ==
    /\ pc = "match"
    /\ GameOver(game) = FALSE
    /\ pc' = "matchState"
    /\ UNCHANGED <<game, mirror, tourVars, evalVars, stepVars>>

\* state := game.State() with a State() that forgets what it returned.
MatchStateConsumes ==
    /\ pc = "matchState"
    /\ snapshot' = State(game)
    /\ game' = [game EXCEPT !.APrevious = -1, !.BPrevious = -1]
    /\ pc' = "matchDecide"
    /\ UNCHANGED <<mirror, tourVars, evalVars, playArg, calls, played>>

\* state := game.State()
MatchState ==
    /\ pc = "matchState"
    /\ snapshot' = State(game)
    /\ pc' = "matchDecide"
    /\ UNCHANGED <<game, mirror, tourVars, evalVars, playArg, calls, played>>

\* gameDecision{aChoice: b1.Decision(state), bChoice: b2.Decision(state)}:
\* each bot is given the value of state, a struct of three ints.
MatchDecide ==
    /\ pc = "matchDecide"
    /\ \E a \in Decision(k1, snapshot), b \in Decision(b2, snapshot) :
         playArg' = gameDecision(a, b)
    /\ pc' = "matchPlay"
    /\ UNCHANGED <<game, mirror, tourVars, evalVars, calls, snapshot, played>>

\* game.Play(...) on the decision just built; the iteration ends and its
\* locals with it.
MatchCallPlay ==
    /\ pc = "matchPlay"
    /\ game' = Play(game, playArg)
    /\ playArg' = NoCall
    /\ snapshot' = NoSnap
    /\ pc' = "match"
    /\ UNCHANGED <<mirror, tourVars, evalVars, calls, played>>

\* runGames on the seven bots up to the end of its first match, as NextMatch.
NextMatchSteps ==
    \/ (done1 = {} /\ RangeK1)
    \/ (done2 = {} /\ RangeB2)
    \/ (i = 0 /\ NewGame)
    \/ SeedPlay
    \/ MatchTest
    \/ MatchState
    \/ MatchDecide
    \/ MatchCallPlay
    \/ Tally

SpecMatchSteps == InitMatch /\ [][NextMatchSteps]_vars

\* ---- the two match runners side by side ----

\* A run is either runGames or GenerationEvaluate: both create their Games
\* with CreateGame and neither calls the other.
InitRunners == Init \/ InitEval

NextRunners ==
    \/ Next
    \/ NextEval

SpecRunners == InitRunners /\ [][NextRunners]_vars

\* ======================= properties =======================

\* A step that is one Play call on the current Game.
PlayStep == game'.Round = game.Round + 1

\* The match loop of runGames has ended for the current Game.
MatchOver == pc \in {"match", "forI"} /\ game.Round > 10

\* C1: in a tournament match GameOver() is false while Round <= 10 and true
\* exactly at Round == 11, Round never passes 11, and once GameOver() is true
\* that Game receives no further Play (it stays as it is until a new Game is
\* created).
C1_GameOverExactlyAtRound11 ==
    /\ [](game.Round \in 0..11 /\ (GameOver(game) <=> game.Round = 11))
    /\ [][GameOver(game) => (game' = game \/ game' = CreateGame)]_vars

C1_Witness ==
    pc = "forI" /\ i = 1 /\ game.Round = 11 /\ GameOver(game)

C3_FirstPlayIsSeeding ==
    (pc = "orgLoop" /\ game.Round = 1) =>
        /\ game.APrevious = -1 /\ game.BPrevious = -1
        /\ game.AScore = 0 /\ game.BScore = 0

\* C4: Play on the pair (-1,-1) leaves both scores as they were, adds one to
\* Round and stores -1 as both previous choices; on a fresh Game the result
\* is AScore = BScore = 0, Round = 1.
C4_SentinelPlayScoresNothing ==
    /\ [](LET g == Play(game, gameDecision(-1, -1))
          IN  /\ g.AScore = game.AScore /\ g.BScore = game.BScore
              /\ g.Round = game.Round + 1
              /\ g.APrevious = -1 /\ g.BPrevious = -1)
    /\ [][(PlayStep /\ game'.APrevious = -1 /\ game'.BPrevious = -1) =>
            /\ game'.AScore = game.AScore
            /\ game'.BScore = game.BScore
            /\ (game = CreateGame =>
                  game' = [AScore |-> 0, BScore |-> 0, Round |-> 1,
                           APrevious |-> -1, BPrevious |-> -1])]_vars

C4_Witness ==
    /\ pc = "free"
    /\ game.Round = 4
    /\ game.APrevious = -1 /\ game.BPrevious = -1
    /\ game.AScore = 9 /\ game.BScore = -6

\* C5 (as claimed): TitForTatBot as A against DefectBot as B plays
\* Cooperate/Defect in the first scored round, Defect/Defect in the nine
\* that follow, and the match ends with AScore = -11 and BScore = -6.
C5_TitForTatVsDefect ==
    (pc \in {"match", "forI"} /\ k1 = "TitForTatBot" /\ b2 = "DefectBot") =>
        /\ game.Round = 2 =>
              (game.APrevious = Cooperate /\ game.BPrevious = Defect)
        /\ game.Round \in 3..11 =>
              (game.APrevious = Defect /\ game.BPrevious = Defect)
        /\ game.Round = 11 => (game.AScore = -11 /\ game.BScore = -6)

\* C6 (as claimed): in a scored round TitForTatBot returns Defect exactly
\* when its opponent's choice of the round before was Defect, in role A
\* (opponent B) as in role B (opponent A).
C6_TitForTatAnswersOpponent ==
    [][(pc = "match" /\ PlayStep) =>
        /\ k1 = "TitForTatBot" =>
              (game'.APrevious = Defect <=> game.BPrevious = Defect)
        /\ b2 = "TitForTatBot" =>
              (game'.BPrevious = Defect <=> game.APrevious = Defect)]_vars

C8_PayoffSymmetricUnderRoleSwap ==
    /\ \A x \in {Cooperate, Defect}, y \in {Cooperate, Defect} :
         Play(game, gameDecision(x, y)).AScore - game.AScore
           = Play(game, gameDecision(y, x)).BScore - game.BScore
    /\ pc = "free" =>
         /\ mirror.AScore = game.BScore
         /\ mirror.BScore = game.AScore
         /\ mirror.Round = game.Round

C8_Witness ==
    /\ pc = "free"
    /\ game.Round = 11
    /\ game.AScore = 30 /\ game.BScore = -20
    /\ mirror.AScore = -20 /\ mirror.BScore = 30

\* Matches of k1 that runGames has finished and counted so far.
GamesCounted ==
    IF pc \in {"forI", "seed", "match"}
    THEN (Cardinality(done2) - 1) * gameTurns + i
    ELSE Cardinality(done2) * gameTurns

C10_ExactlyOneCounterPerMatch ==
    [][(pc = "match" /\ pc' = "forI") =>
        LET dW == k1Wins' - k1Wins
            dL == k1Loses' - k1Loses
            dD == k1Draws' - k1Draws
        IN  /\ dW \in {0, 1} /\ dL \in {0, 1} /\ dD \in {0, 1}
            /\ dW + dL + dD = 1
            /\ dW = 1 <=> game.AScore > game.BScore
            /\ dL = 1 <=> game.AScore < game.BScore
            /\ dD = 1 <=> game.AScore = game.BScore]_vars

C10_Witness ==
    /\ pc = "forI" /\ i = 1
    /\ game.AScore < game.BScore
    /\ k1Loses = 1 /\ k1Wins = 0 /\ k1Draws = 0

\* The winner of a finished Game, by the three comparisons of runGames.
Winner(g) ==
    IF TallyWins(g, 0) = 1 THEN "A"
    ELSE IF TallyLoses(g, 0) = 1 THEN "B" ELSE "Draw"

\* C11: two runs of a match between the same two bots that do not call rand,
\* in the same roles, are in the same Game state (scores and the choices just
\* played) whenever they have played the same number of rounds, so they play
\* the same sequence of choices and end with the same scores and winner.
C11_ReplayIsIdentical ==
    (pc = "replay" /\ game.Round = mirror.Round) =>
        /\ game = mirror
        /\ Winner(game) = Winner(mirror)

C11_Witness ==
    /\ pc = "replay"
    /\ k1 = "TitForTatBotReverse" /\ b2 = "TitForTatBot"
    /\ GameOver(game) /\ GameOver(mirror)
    /\ game = mirror
    /\ game.AScore # game.BScore

\* C12: in every round of the match loop both choices are decisions on the
\* one snapshot (aPrevious, bPrevious, round) of the Game taken before that
\* round's Play: A's choice is a decision of k1 on it and B's choice is a
\* decision of b2 on it, whatever the other one chose; for two bots that do
\* not call rand the snapshot fixes the pair of choices, so the order in
\* which the two are asked does not matter.
C12_BothDecideOnTheSnapshot ==
    [][(pc = "match" /\ PlayStep) =>
        LET snap == [aPrevious |-> game.APrevious,
                     bPrevious |-> game.BPrevious, round |-> game.Round]
        IN  /\ game'.APrevious \in Decision(k1, snap)
            /\ game'.BPrevious \in Decision(b2, snap)
            /\ (k1 \in FixedBots /\ b2 \in FixedBots) =>
                  /\ Decision(k1, snap) = {game'.APrevious}
                  /\ Decision(b2, snap) = {game'.BPrevious}]_vars

C12_Witness ==
    /\ pc = "match"
    /\ k1 = "TitForTatBotReverse" /\ b2 = "TitForTatBot"
    /\ game.Round = 3
    /\ game.APrevious = Defect /\ game.BPrevious = Cooperate

C14_NetworkFailureFailsTheMatch ==
    [][(pc = "orgLoop" /\ netErr' # "nil") =>
        (game' = game /\ pc' = "genError")]_vars

\* C15: for each candidate orgEvaluate creates one Game, plays it to
\* GameOver with the candidate in role A, and sets the candidate's Fitness to
\* the AScore of that one finished Game; no other organism's fields change
\* and the next match belongs to the next candidate.
C15_FitnessIsAScoreOfOneMatch ==
    /\ [][(pc = "genLoop" /\ pc' = "orgLoop") =>
            (game' = CreateGame /\ orgIdx' = orgIdx
             /\ organisms' = organisms)]_vars
    /\ [][(pc = "orgLoop" /\ pc' # "orgLoop") =>
            /\ GameOver(game) /\ game' = game
            /\ organisms'[orgIdx].Fitness = game.AScore
            /\ \A o \in 1..PopSize :
                  o # orgIdx => organisms'[o] = organisms[o]
            /\ orgIdx' = orgIdx + 1]_vars

C15_Witness ==
    /\ pc = "genDone"
    /\ organisms[1].Fitness = 33
    /\ organisms[2].Fitness = -22
    /\ game.AScore = -22 /\ game.BScore = 33

\* C16 (as claimed): after a generation has been evaluated there is one
\* threshold such that every candidate is flagged IsWinner exactly when its
\* final score is strictly greater than it; in particular two candidates
\* with the same final score carry the same flag.
C16_WinnerIffScoreAboveThreshold ==
    pc = "genDone" =>
        \E t \in -23..33 :
            \A o \in 1..PopSize :
                organisms[o].IsWinner <=> organisms[o].Fitness > t

\* C17: every Play call adds exactly one to Round, whatever the two choices
\* are (values outside the domain included), GameOver() holds exactly from
\* Round 11 on, and a Game that keeps being played reaches GameOver: no
\* sequence of choices keeps a match running.
C17_MatchTerminates ==
    /\ [][game'.Round = game.Round + 1]_vars
    /\ [](GameOver(game) <=> game.Round >= 11)
    /\ <>GameOver(game)

C17_Witness ==
    /\ pc = "free"
    /\ game.Round = 11 /\ GameOver(game)
    /\ game.APrevious = 2 /\ game.BPrevious = -1
    /\ game.AScore = 0 /\ game.BScore = 0

\* C18: runGames pairs every bot k1 (role A) with every bot of the map (role
\* B), itself included, each ordered pairing once; it leaves a pairing only
\* after exactly gameTurns finished matches (i counts them), so k1 has played
\* gameTurns * len(bots) matches as A when its rates are stored, and the run
\* ends only when every bot has been k1.
C18_AllPairsExactRepetitions ==
    /\ [](i \in 0..gameTurns)
    /\ [][(pc = "rangeB2" /\ pc' = "forI") =>
            (k1 \in bots /\ k1' = k1 /\ b2' \in bots \ done2 /\ i' = 0)]_vars
    /\ [][i' # i =>
            (i' = 0 \/ (i' = i + 1 /\ pc = "match" /\ game.Round = 11))]_vars
    /\ [][(pc = "forI" /\ pc' = "rangeB2") => i = gameTurns]_vars
    /\ [][(pc = "rangeB2" /\ pc' = "rangeK1") =>
            /\ done2 = bots
            /\ k1Wins + k1Loses + k1Draws = gameTurns * Cardinality(bots)]_vars
    /\ [][(pc = "rangeK1" /\ pc' = "rangeB2") => k1' \in bots \ done1]_vars
    /\ [](pc = "done" => done1 = bots)

C18_Witness ==
    /\ pc = "rangeB2"
    /\ Cardinality(bots) = 3
    /\ done2 = bots
    /\ b2 = k1
    /\ i = gameTurns
    /\ k1Wins + k1Loses + k1Draws = gameTurns * 3

\* C19 (as claimed): the Game CreateGame returns has AScore = BScore = 0,
\* Round = 0 and previous choices that are neither Cooperate nor Defect, so
\* a GameState read before any scored round shows no valid previous choice.
\* Stated on the Game orgEvaluate has just created.
C19_FreshGameHasSentinelPrevious ==
    (pc = "orgLoop" /\ game.Round = 0) =>
        /\ game.AScore = 0 /\ game.BScore = 0
        /\ State(game).aPrevious \notin {Cooperate, Defect}
        /\ State(game).bPrevious \notin {Cooperate, Defect}

\* C20: the state the seeding round leaves has Round = 1 and -1 as both
\* previous choices; on it TitForTatBot returns Cooperate, so a TitForTatBot
\* in either role plays Cooperate in the first scored round.
C20_TitForTatCooperatesAfterSeeding ==
    /\ []((pc = "match" /\ game.Round = 1) =>
            /\ game.APrevious = -1 /\ game.BPrevious = -1
            /\ TitForTatBotDecision(State(game)) = {Cooperate})
    /\ [][(pc = "match" /\ game.Round = 1 /\ PlayStep) =>
            /\ k1 = "TitForTatBot" => game'.APrevious = Cooperate
            /\ b2 = "TitForTatBot" => game'.BPrevious = Cooperate]_vars

C20_Witness ==
    /\ pc = "match"
    /\ game.Round = 2
    /\ k1 = "DefectBot" /\ b2 = "TitForTatBot"
    /\ game.APrevious = Defect /\ game.BPrevious = Cooperate

\* C21 (as claimed): in a scored round TitForTatBotReverse returns Defect
\* exactly when its opponent's choice of the round before was Cooperate, and
\* Cooperate otherwise (on the state the seeding round leaves too), in role A
\* (opponent B) as in role B (opponent A).
C21_TitForTatReverseAnswersOpponent ==
    [][(pc = "match" /\ PlayStep) =>
        /\ k1 = "TitForTatBotReverse" =>
              (game'.APrevious = Defect <=> game.BPrevious = Cooperate)
        /\ b2 = "TitForTatBotReverse" =>
              (game'.BPrevious = Defect <=> game.APrevious = Cooperate)]_vars

\* C22: each of the two network adapters (NeuralNetworkBot.Decision and the
\* one in the loop of orgEvaluate) loads exactly the two values (aPrevious,
\* bPrevious) of the GameState it was given into the network, and returns
\* Defect iff the first output of the network is strictly greater than 0.5,
\* Cooperate otherwise; an output of exactly 0.5 gives Cooperate.
C22_AdapterInputsAndThreshold ==
    adapter.by \in {"NeuralNetworkBot", "orgEvaluate"} =>
        /\ adapter.sensors = <<game.APrevious, game.BPrevious>>
        /\ Len(adapter.sensors) = 2
        /\ adapter.output > 5 => adapter.decision = Defect
        /\ adapter.output <= 5 => adapter.decision = Cooperate

C22_Witness ==
    /\ adapter.by = "orgEvaluate"
    /\ game.APrevious = Defect /\ game.BPrevious = Cooperate
    /\ adapter.sensors = <<Defect, Cooperate>>
    /\ adapter.output = 5
    /\ adapter.decision = Cooperate

\* C23: every match of runGames and of GenerationEvaluate starts on a Game
\* that has just been created, with AScore = BScore = 0 and Round = 0 whatever
\* the Game of the match before held; the first Play of a match is applied to
\* that Game; a Game changes only by a Play of its own match, so its scores
\* stay within what its own rounds can have given (-2 to 3 per round).
C23_EveryMatchStartsFresh ==
    /\ [][((pc = "forI" /\ pc' = "seed") \/ (pc = "genLoop" /\ pc' = "orgLoop"))
            => game' = [AScore |-> 0, BScore |-> 0, Round |-> 0,
                        APrevious |-> 0, BPrevious |-> 0]]_vars
    /\ [][(pc = "seed" /\ PlayStep) =>
            (game.AScore = 0 /\ game.BScore = 0 /\ game.Round = 0)]_vars
    /\ [][game' # game =>
            \/ (pc \in {"seed", "match", "orgLoop"} /\ pc' \in {"match", "orgLoop"}
                /\ PlayStep)
            \/ (pc \in {"forI", "genLoop"} /\ game'.Round = 0)]_vars
    /\ [](/\ game.AScore >= -2 * game.Round /\ game.AScore <= 3 * game.Round
          /\ game.BScore >= -2 * game.Round /\ game.BScore <= 3 * game.Round
          /\ game.Round \in 0..11)

\* The second match of a pairing starts fresh after a first one that ended
\* with scores other than 0.
C23_Witness ==
    /\ pc = "seed" /\ i = 1
    /\ k1 = "DefectBot" /\ b2 = "CooperateBot"
    /\ k1Wins = 1
    /\ game.AScore = 0 /\ game.BScore = 0 /\ game.Round = 0

\* The counters runGames keeps for the bot k1 of the outer loop.
Counters == <<k1Wins, k1Loses, k1Draws, MapGet(scoreRates, k1)>>

\* C24: the counters of a bot (wins, losses, draws, total score) change only
\* in the step that follows the end of the match loop, with GameOver() true
\* for the Game of that match, and once per match: that step counts the match
\* (i goes up by one, the total score by the final AScore) and leaves the
\* Game; while a match is in progress they stay as they are, and the score
\* of no other bot changes.
C24_CountersChangeOnlyAfterAMatch ==
    /\ [][(k1' = k1 /\ Counters' # Counters) =>
            /\ pc = "match" /\ GameOver(game) /\ game.Round = 11
            /\ game' = game
            /\ pc' = "forI" /\ i' = i + 1
            /\ k1Wins' + k1Loses' + k1Draws' = k1Wins + k1Loses + k1Draws + 1
            /\ MapGet(scoreRates', k1) = MapGet(scoreRates, k1) + game.AScore]_vars
    /\ [][(pc \in {"seed", "match"} /\ ~GameOver(game)) =>
            (Counters' = Counters /\ scoreRates' = scoreRates)]_vars
    /\ [][\A k \in bots : k # k1' =>
            MapGet(scoreRates', k) = MapGet(scoreRates, k)]_vars
    /\ [](pc \in {"seed", "match"} =>
            k1Wins + k1Loses + k1Draws = GamesCounted)

\* A second match in progress while the counters hold the first match only.
C24_Witness ==
    /\ pc = "match" /\ i = 1
    /\ k1 = "DefectBot" /\ b2 = "CooperateBot" /\ done1 = {k1} /\ done2 = {b2}
    /\ game.Round = 6 /\ game.AScore = 15
    /\ k1Wins = 1 /\ k1Loses = 0 /\ k1Draws = 0
    /\ MapGet(scoreRates, k1) = 30

\* The Game at the end of the match of runGames between ka (role A) and kb
\* (role B), two bots that do not call rand: CreateGame, the seeding Play and
\* the loop for !game.GameOver(), each step having one outcome.
RECURSIVE PlayOut(_, _, _)
PlayOut(g, ka, kb) ==
    IF GameOver(g) THEN g
    ELSE PlayOut(CHOOSE x \in MatchStep(g, ka, kb) : TRUE, ka, kb)

\* Sum over the bots kb of S of the final AScore of ka against kb.
RECURSIVE SumAScore(_, _)
SumAScore(ka, S) ==
    IF S = {} THEN 0
    ELSE LET kb == CHOOSE x \in S : TRUE
         IN  PlayOut(CreateGame, ka, kb).AScore + SumAScore(ka, S \ {kb})

\* The opponents of S against which ka ends a match as w ("A", "B", "Draw").
Outcomes(ka, S, w) == {kb \in S : Winner(PlayOut(CreateGame, ka, kb)) = w}

\* C25: for bots that do not call rand, whatever the order in which the two
\* ranges over the bots map visit the keys, runGames ends with the same
\* aggregates for every bot: they are functions of the set of bots alone
\* (gameTurns times the number of opponents won, lost and drawn against, and
\* gameTurns times the sum of the final scores against every opponent).
C25_AggregatesIndependentOfOrder ==
    pc = "done" =>
        /\ DOMAIN scoreRates = bots /\ DOMAIN winRates = bots
        /\ DOMAIN lossRates = bots /\ DOMAIN drawRates = bots
        /\ \A k \in bots :
             /\ scoreRates[k] = gameTurns * SumAScore(k, bots)
             /\ winRates[k] =
                  Rate(gameTurns * Cardinality(Outcomes(k, bots, "A")),
                       Cardinality(bots))
             /\ lossRates[k] =
                  Rate(gameTurns * Cardinality(Outcomes(k, bots, "B")),
                       Cardinality(bots))
             /\ drawRates[k] =
                  Rate(gameTurns * Cardinality(Outcomes(k, bots, "Draw")),
                       Cardinality(bots))

\* The end of a run over three bots that visited DefectBot last in the outer
\* range and TitForTatBot last in the inner one.
C25_Witness ==
    /\ pc = "done"
    /\ bots = {"TitForTatBot", "DefectBot", "CooperateBot"}
    /\ k1 = "DefectBot" /\ b2 = "TitForTatBot"
    /\ scoreRates["DefectBot"] = gameTurns * (30 - 6 - 10)
    /\ scoreRates["CooperateBot"] = gameTurns * (10 + 10 - 20)

\* C26: whenever the caller can evaluate State() or GameOver() (it is between
\* two Play calls), the Game holds every Play call made so far applied whole:
\* scores, previous choices and round of each call all applied, none applied
\* in part; Round is the number of Play calls made, and State() shows the
\* choices of the last one.
C26_PlayIsAtomicForObservers ==
    pc = "loop" =>
        /\ game = mirror
        /\ game.Round = calls
        /\ State(game) = [aPrevious |-> mirror.APrevious,
                          bPrevious |-> mirror.BPrevious, round |-> calls]
        /\ GameOver(game) <=> calls > 10

C26_Witness ==
    /\ pc = "loop"
    /\ calls = 11 /\ game.Round = 11
    /\ game.AScore = 28 /\ game.BScore = -17
    /\ game.APrevious = Cooperate /\ game.BPrevious = Defect
    /\ game = mirror

\* C27: when a Play call returns, State() shows as aPrevious and bPrevious
\* the two choices passed to that call and as round the number of Play calls
\* made so far; it stays so until the next call returns; round is never
\* negative; State() has no other field, so it is the same after any two
\* histories that end with the same call and have the same length.
C27_StateShowsOnlyTheLastRound ==
    /\ [][(pc = "playRound" /\ pc' = "loop") =>
            State(game') = [aPrevious |-> playArg.aChoice,
                            bPrevious |-> playArg.bChoice,
                            round |-> calls]]_vars
    /\ [][pc = "loop" => State(game') = State(game)]_vars
    /\ [](pc = "loop" => (State(game).round = calls /\ State(game).round >= 0))
    /\ [](DOMAIN State(game) = {"aPrevious", "bPrevious", "round"})

\* After two rounds Defect/Cooperate and a third call with (2, -1).
C27_Witness ==
    /\ pc = "loop"
    /\ calls = 3
    /\ game.AScore = 6 /\ game.BScore = -4
    /\ State(game) = [aPrevious |-> 2, bPrevious |-> -1, round |-> 3]

\* C28: the calls GameOver(), State() and Decision(state) leave the Game as
\* it is (scores, round, previous choices); the value handed to the bots is
\* the three ints State() returned, not the Game; a Game changes only by a
\* Play call (or is replaced by the Game CreateGame returns).
C28_OnlyPlayChangesTheGame ==
    /\ [][(pc \in {"match", "matchState", "matchDecide"}) => game' = game]_vars
    /\ [][game' # game =>
            \/ (pc = "matchPlay" /\ game' = Play(game, playArg))
            \/ (pc = "seed" /\ PlayStep)
            \/ (pc = "forI" /\ game'.Round = 0)]_vars
    /\ [](pc \in {"matchDecide", "matchPlay"} =>
            /\ snapshot = [aPrevious |-> game.APrevious,
                       bPrevious |-> game.BPrevious, round |-> game.Round]
            /\ DOMAIN snapshot = {"aPrevious", "bPrevious", "round"})

\* The fifth scored round is about to be played: GameOver(), State() and the
\* two Decision have been called on the Game and it is as round four left it.
C28_Witness ==
    /\ pc = "matchPlay"
    /\ k1 = "DefectBot" /\ b2 = "CooperateBot"
    /\ game.Round = 5 /\ game.AScore = 12 /\ game.BScore = -8
    /\ snapshot = State(game)
    /\ playArg = gameDecision(Defect, Cooperate)

\* C29: in a match of runGames with TitForTatBot in role A, the decision of
\* TitForTatBot depends on aPrevious alone, and aPrevious is the choice it
\* made itself in the round before (-1 after the seeding round); so it
\* plays Cooperate in each of the 10 scored rounds whatever B plays, and
\* each round gives (+1,+1) or (-2,+3).
C29_TitForTatAsAAlwaysCooperates ==
    /\ [][(pc = "match" /\ PlayStep /\ k1 = "TitForTatBot") =>
            /\ game.APrevious \in {-1, Cooperate}
            /\ game'.APrevious = Cooperate
            /\ \A x \in {-1, Cooperate, Defect} :
                 TitForTatBotDecision([State(game) EXCEPT !.bPrevious = x])
                   = {Cooperate}]_vars
    /\ []((pc \in {"match", "forI"} /\ game.Round >= 1
           /\ k1 = "TitForTatBot") =>
            \E d \in 0..(game.Round - 1) :
                /\ game.AScore = (game.Round - 1 - d) - 2 * d
                /\ game.BScore = (game.Round - 1 - d) + 3 * d)

C29_Witness ==
    /\ pc = "forI" /\ i = 1
    /\ k1 = "TitForTatBot" /\ b2 = "DefectBot"
    /\ game.Round = 11
    /\ game.APrevious = Cooperate /\ game.BPrevious = Defect
    /\ game.AScore = -20 /\ game.BScore = 30

\* C30: orgEvaluate calls Play exactly 11 times on the Game it created, and
\* each call carries the candidate's decision and RandomBot's, both in
\* {Cooperate, Defect}: there is no seeding round, the first call already
\* scores. The candidate's first decision is made on the state (aPrevious =
\* Cooperate, bPrevious = Cooperate, round = 0). The fitness is the AScore
\* of 11 scored rounds and lies in -22..33.
C30_OrgEvaluatePlaysElevenScoredRounds ==
    /\ []((pc = "orgLoop" /\ game.Round = 0) =>
            State(game) = [aPrevious |-> Cooperate, bPrevious |-> Cooperate,
                           round |-> 0])
    /\ [](pc = "orgLoop" =>
            /\ game.Round \in 0..11
            /\ game.Round >= 1 =>
                  /\ game.APrevious \in {Cooperate, Defect}
                  /\ game.BPrevious \in {Cooperate, Defect}
            /\ game.Round = 1 => (game.AScore # 0 /\ game.BScore # 0)
            /\ game.AScore \in (-2 * game.Round)..(3 * game.Round))
    /\ [][(pc = "orgLoop" /\ pc' = "orgLoop") =>
            (game'.Round = game.Round + 1
             /\ <<game'.AScore - game.AScore, game'.BScore - game.BScore>>
                  \in {<<1, 1>>, <<-1, -1>>, <<-2, 3>>, <<3, -2>>})]_vars
    /\ [][(pc = "orgLoop" /\ pc' # "orgLoop") =>
            /\ game.Round = 11
            /\ organisms'[orgIdx].Fitness = game.AScore
            /\ organisms'[orgIdx].Fitness \in -22..33]_vars

\* Both ends of the range: the first candidate cooperated against eleven
\* defections, the second defected against eleven cooperations.
C30_Witness ==
    /\ pc = "genDone"
    /\ organisms[1].Fitness = -22
    /\ organisms[2].Fitness = 33
    /\ game.Round = 11 /\ game.AScore = 33 /\ game.BScore = -22

\* C31: a Play call in which at least one of the two choices is outside
\* {Cooperate, Defect} changes neither score, whatever the other choice is,
\* and still stores both values as the previous choices and adds one to
\* Round.
C31_InvalidChoiceScoresNothing ==
    /\ [](\A a \in Choices, b \in Choices :
            (a \notin {Cooperate, Defect} \/ b \notin {Cooperate, Defect}) =>
                Play(game, gameDecision(a, b)) =
                    [AScore |-> game.AScore, BScore |-> game.BScore,
                     Round |-> game.Round + 1,
                     APrevious |-> a, BPrevious |-> b])
    /\ [][(PlayStep /\ (game'.APrevious \notin {Cooperate, Defect}
                        \/ game'.BPrevious \notin {Cooperate, Defect})) =>
            (game'.AScore = game.AScore /\ game'.BScore = game.BScore)]_vars

\* Two rounds Defect/Cooperate, then a call with (Cooperate, 2).
C31_Witness ==
    /\ pc = "free"
    /\ game.Round = 3
    /\ game.APrevious = Cooperate /\ game.BPrevious = 2
    /\ game.AScore = 6 /\ game.BScore = -4

C33_ScoreDifferenceMultipleOfFive ==
    /\ []((game.AScore - game.BScore) % 5 = 0)
    /\ [](game.AScore - game.BScore = 5 * (played.dc - played.cd))
    /\ []((TallyDraws(game, 0) = 1) <=> (played.cd = played.dc))
    /\ [][PlayStep =>
            (game'.AScore - game'.BScore) - (game.AScore - game.BScore)
              \in {-5, 0, 5}]_vars

\* A drawn Game of eleven calls with two rounds of each lopsided kind.
C33_Witness ==
    /\ pc = "free"
    /\ game.Round = 11
    /\ played = [cd |-> 2, dc |-> 2]
    /\ game.AScore = game.BScore /\ game.AScore = 9

\* C34: in a tournament match, after k = Round - 1 scored rounds both scores
\* lie in -2k..3k and their sum in -2k..2k; a finished match (k = 10) has
\* both scores in -20..30 and their sum in -20..20.
C34_ScoreBounds ==
    (pc \in {"match", "forI"} /\ game.Round >= 1) =>
        LET k == game.Round - 1
        IN  /\ -2 * k <= game.AScore /\ game.AScore <= 3 * k
            /\ -2 * k <= game.BScore /\ game.BScore <= 3 * k
            /\ -2 * k <= game.AScore + game.BScore
            /\ game.AScore + game.BScore <= 2 * k
            /\ GameOver(game) =>
                  /\ k = 10
                  /\ game.AScore \in -20..30 /\ game.BScore \in -20..30
                  /\ game.AScore + game.BScore \in -20..20

\* A finished match at the upper end of the sum: ten rounds of mutual
\* cooperation.
C34_Witness ==
    /\ pc = "forI" /\ i = 1
    /\ k1 = "CooperateBot" /\ b2 = "TitForTatBot"
    /\ game.Round = 11
    /\ game.AScore = 10 /\ game.BScore = 10

\* C35: the step that counts a finished match changes the statistics of the
\* bot in role A only: one of the three counters of k1 goes up and
\* scoreRates[k1] grows by AScore. Nothing is recorded for the bot in role B:
\* its total score and every stored rate stay as they are, and no total ever
\* changes by anything but the AScore of a match of its own bot as A.
C35_MatchCreditsRoleAOnly ==
    /\ [][(pc = "match" /\ pc' = "forI") =>
            /\ MapGet(scoreRates', k1) = MapGet(scoreRates, k1) + game.AScore
            /\ k1Wins' + k1Loses' + k1Draws' = k1Wins + k1Loses + k1Draws + 1
            /\ \A k \in bots \ {k1} :
                 MapGet(scoreRates', k) = MapGet(scoreRates, k)
            /\ b2 # k1 => MapGet(scoreRates', b2) = MapGet(scoreRates, b2)
            /\ winRates' = winRates /\ lossRates' = lossRates
            /\ drawRates' = drawRates]_vars
    /\ [][scoreRates' # scoreRates =>
            /\ pc = "match"
            /\ scoreRates' =
                 MapSet(scoreRates, k1, MapGet(scoreRates, k1) + game.AScore)]_vars
    /\ [](DOMAIN scoreRates \subseteq done1)

\* DefectBot (A) has just beaten CooperateBot (B), whose statistics from its
\* own turn as k1 are as that turn left them.
C35_Witness ==
    /\ pc = "forI" /\ i = 1
    /\ bots = {"CooperateBot", "DefectBot"}
    /\ k1 = "DefectBot" /\ b2 = "CooperateBot" /\ done2 = {b2}
    /\ game.AScore = 30 /\ game.BScore = -20
    /\ DOMAIN scoreRates = bots
    /\ scoreRates["DefectBot"] = 30
    /\ scoreRates["CooperateBot"] = gameTurns * (10 - 20)
    /\ DOMAIN winRates = {"CooperateBot"}

\* C36: in a match of runGames in which the same bot that does not call rand
\* plays both roles, the two choices of every round are equal, the two
\* scores are equal throughout, and the match is counted as a draw.
C36_SelfPairingIsADraw ==
    /\ []((pc \in {"match", "forI"} /\ k1 = b2 /\ k1 \in FixedBots) =>
            /\ game.APrevious = game.BPrevious
            /\ game.AScore = game.BScore)
    /\ [][(pc = "match" /\ PlayStep /\ k1 = b2 /\ k1 \in FixedBots) =>
            Decision(k1, State(game)) = Decision(b2, State(game))]_vars
    /\ [][(pc = "match" /\ pc' = "forI" /\ k1 = b2 /\ k1 \in FixedBots) =>
            /\ k1Draws' = k1Draws + 1
            /\ k1Wins' = k1Wins /\ k1Loses' = k1Loses]_vars

\* TitForTatBotReverse against itself: five rounds of mutual cooperation and
\* five of mutual defection.
C36_Witness ==
    /\ pc = "forI" /\ i = 1
    /\ k1 = "TitForTatBotReverse" /\ b2 = "TitForTatBotReverse"
    /\ game.Round = 11
    /\ game.AScore = 0 /\ game.BScore = 0
    /\ k1Draws = 1

\* C37: in a match of runGames with TitForTatBotReverse in role A, its
\* choices over the 10 scored rounds are Cooperate, Defect, Cooperate,
\* Defect, ...: Cooperate in the first scored round (aPrevious is -1 after
\* the seeding round), then the opposite of its own last choice, whatever
\* the bot in role B plays.
C37_TitForTatReverseAsAAlternates ==
    /\ []((pc \in {"match", "forI"} /\ k1 = "TitForTatBotReverse"
           /\ game.Round >= 2) =>
            game.APrevious =
                (IF game.Round % 2 = 0 THEN Cooperate ELSE Defect))
    /\ [][(pc = "match" /\ PlayStep /\ k1 = "TitForTatBotReverse") =>
            /\ game.Round = 1 => game'.APrevious = Cooperate
            /\ game.Round >= 2 => game'.APrevious = 1 - game.APrevious
            /\ \A x \in {-1, Cooperate, Defect} :
                 TitForTatBotReverseDecision(
                     [State(game) EXCEPT !.bPrevious = x])
                   = {game'.APrevious}]_vars

\* Against DefectBot: five rounds Cooperate/Defect and five Defect/Defect.
C37_Witness ==
    /\ pc = "forI" /\ i = 1
    /\ k1 = "TitForTatBotReverse" /\ b2 = "DefectBot"
    /\ game.Round = 11
    /\ game.APrevious = Defect /\ game.BPrevious = Defect
    /\ game.AScore = -15 /\ game.BScore = 10

====
